---- MODULE Spec2Model ----
(***************************************************************************)
(* Model of schelling.py: the neighbourhood enumeration find_neighbors,    *)
(* the move/stay rule similarity, and the frame loop SchellingModel.run.   *)
(*                                                                         *)
(* Cell values are the integers the program stores: 0 is the empty space,  *)
(* -1 and 1 are the two groups.  Fractions (neighbor_tol, prior_dist) are  *)
(* kept exact: neighbor_tol is a pair <<numerator, denominator>> and       *)
(* prior_dist a triple of numerators over 3 (thirds).                      *)
(***************************************************************************)
EXTENDS Integers, Sequences, FiniteSets

VARIABLES
    h, w,            \* self.size, unpacked at line 125
    neighbor_size,   \* self.neighbor_size
    neighbor_tol,    \* self.neighbor_tol, <<numerator, denominator>>
    prior_dist,      \* self.prior_dist, in thirds
    max_frame,       \* self.max_frame
    show_every,      \* self.show_every
    grid,            \* the local array grid of run()
    frame,           \* the local frame counter of run()
    i, j,            \* the loop indices of the sweep
    pc,              \* position of run(): start, loop, show, showing, sweep, done, error
    err,             \* the exception that ended run(), "none" while there is none
    init_grid,       \* history: the grid as line 129 produced it
    last,            \* history: the latest call of similarity (NoCall before the first)
    shown,           \* history: the frame indices handed to the plot, in order
    window,          \* the open plot window, <<frame, grid>>; NoWindow while none is open
    hops             \* history: per cell, the relocations its resident made in the sweep under way

vars == <<h, w, neighbor_size, neighbor_tol, prior_dist, max_frame, show_every,
          grid, frame, i, j, pc, err, init_grid, last, shown, window,
          hops>>

config == <<h, w, neighbor_size, neighbor_tol, prior_dist, max_frame, show_every>>

(***************************************************************************)
(* Bounds of the model.                                                    *)
(***************************************************************************)
MaxCells == 4
MaxRadius == 2
MaxFrame == 2
MaxShow == 2

\* The three cell states of the grid (line 128).
Empty == 0
TypeA == -1
TypeB == 1
States == {TypeA, Empty, TypeB}

\* Grid sizes: every (height, width), non-positive ones included, whose grid
\* has at most MaxCells cells.
Sizes == {s \in ((-1)..MaxCells) \X ((-1)..MaxCells) : s[1] * s[2] <= MaxCells}

\* Tolerances as exact fractions <<numerator, denominator>>.
Tolerances == {<<0, 1>>, <<1, 2>>, <<1, 1>>}

\* prior_dist is a triple of thirds; it sums to 1 iff the numerators sum to 3.
\* The distributions drawn here are the three that put all weight on one draw,
\* the uniform one, and the sums of 2/3, which numpy rejects.
PriorDists == {p \in [1..3 -> {0, 1, 3}] : p[1] + p[2] + p[3] \in {2, 3}}

Cells(rows, cols) == (0..(rows - 1)) \X (0..(cols - 1))

(***************************************************************************)
(* find_neighbors (lines 38-44): itertools.product over the two ranges     *)
(* range(n - neighbor_size, n + neighbor_size + 1), in product order, kept *)
(* when the coordinate differs from xy and lies inside the grid.           *)
(***************************************************************************)
RangeLen(ns) == IF 2 * ns + 1 > 0 THEN 2 * ns + 1 ELSE 0

Window(xy, ns) ==
    [k \in 1..(RangeLen(ns) * RangeLen(ns)) |->
        <<xy[1] - ns + ((k - 1) \div RangeLen(ns)),
          xy[2] - ns + ((k - 1) % RangeLen(ns))>>]

find_neighbors_with_center(xy, n_rows, n_cols, ns) ==
    LET keep(c) == (c[1] \in 0..(n_rows - 1)) /\ (c[2] \in 0..(n_cols - 1))
    IN  SelectSeq(Window(xy, ns), keep)

find_neighbors(xy, n_rows, n_cols, ns) ==
    LET keep(c) == (c # xy) /\ (c[1] \in 0..(n_rows - 1)) /\ (c[2] \in 0..(n_cols - 1))
    IN  SelectSeq(Window(xy, ns), keep)

(***************************************************************************)
(* similarity (lines 74-83).  The result is "True" or "False", or          *)
(* "ZeroDivisionError" when line 78 divides by len(neighborhood) = 0.      *)
(* cnt < tolerance is decided exactly, by cross-multiplication.            *)
(***************************************************************************)
NeighborhoodOccupied(g, xy, n_rows, n_cols, ns) ==
    LET nb == find_neighbors(xy, n_rows, n_cols, ns)
        occupied(v) == v # 0
    IN  SelectSeq([k \in 1..Len(nb) |-> g[nb[k]]], occupied)

Neighborhood(g, xy, n_rows, n_cols, ns) ==
    LET nb == find_neighbors(xy, n_rows, n_cols, ns)
    IN  [k \in 1..Len(nb) |-> g[nb[k]]]

Count(seq, v) == Cardinality({k \in 1..Len(seq) : seq[k] = v})

similarity_le(g, xy, n_rows, n_cols, ns, tol) ==
    LET neighborhood == Neighborhood(g, xy, n_rows, n_cols, ns)
    IN  IF Len(neighborhood) = 0 THEN "ZeroDivisionError"
        ELSE IF Count(neighborhood, g[xy]) * tol[2] <= tol[1] * Len(neighborhood)
             THEN "True" ELSE "False"

similarity_gt(g, xy, n_rows, n_cols, ns, tol) ==
    LET neighborhood == Neighborhood(g, xy, n_rows, n_cols, ns)
    IN  IF Len(neighborhood) = 0 THEN "ZeroDivisionError"
        ELSE IF Count(neighborhood, g[xy]) * tol[2] > tol[1] * Len(neighborhood)
             THEN "True" ELSE "False"

similarity(g, xy, n_rows, n_cols, ns, tol) ==
    LET neighborhood == Neighborhood(g, xy, n_rows, n_cols, ns)
    IN  IF Len(neighborhood) = 0 THEN "ZeroDivisionError"
        ELSE IF Count(neighborhood, g[xy]) * tol[2] < tol[1] * Len(neighborhood)
             THEN "True" ELSE "False"

(***************************************************************************)
(* Pieces of run().                                                        *)
(***************************************************************************)
\* Line 129: np.random.choice(3, p=prior_dist) - 1.  Index k of prior_dist
\* (1-based here) is the draw k - 1, stored as k - 2.
DrawValueRaw(k) == k - 1
DrawValue(k) == k - 2
Support(p) == {DrawValue(k) : k \in {n \in 1..3 : p[n] > 0}}

\* Line 129 raises ValueError for a negative dimension or probabilities that
\* do not sum to 1.
PopulateRaises(rows, cols, p) ==
    \/ rows < 0
    \/ cols < 0
    \/ p[1] + p[2] + p[3] # 3

\* Line 133: the loop condition.
LoopCondOffByOne(f, mf) == f <= mf
LoopCond(f, mf) == f < mf

\* Line 134: frame % show_every, with Python's sign convention.
PyMod(a, b) == IF b > 0 THEN a % b ELSE -((-a) % (-b))

\* Line 137: what the plot of a frame is given, the frame index (line 136)
\* and the grid.
NoWindow == <<>>
PlottedInitial(f, g) == <<f, init_grid>>
Plotted(f, g) == <<f, g>>

\* Line 145: the test that skips an empty space.
IsEmptySpaceNever(g, xy) == FALSE
IsEmptyOrArrived(g, xy) == g[xy] = Empty \/ hops[xy] > 0
IsEmptySpace(g, xy) == g[xy] = Empty

\* Line 152: np.argwhere(grid == 0).
EmptiesAtInit(g) == {c \in DOMAIN init_grid : init_grid[c] = Empty}
EmptiesAnyCell(g) == DOMAIN g
Empties(g) == {c \in DOMAIN g : g[c] = Empty}

\* Lines 153-154: the resident at src moves to dst and src is left empty.
MovedKeepOrigin(g, src, dst) == [g EXCEPT ![dst] = g[src]]
Moved(g, src, dst) == [[g EXCEPT ![dst] = g[src]] EXCEPT ![src] = Empty]

\* Lines 153-154 seen from the residents: the one that moves from src to dst
\* has made one relocation more in this sweep; no resident is left at src.
NoHops(g) == [c \in DOMAIN g |-> 0]
Hopped(hp, src, dst) == [[hp EXCEPT ![dst] = hp[src] + 1] EXCEPT ![src] = 0]

\* Line 151: the record of a call of similarity: its xy, the value grid[xy]
\* it was called for, and its outcome.
NoCall == [xy |-> <<-1, -1>>, own |-> Empty, res |-> "none"]

\* Lines 142-143: the cell after (i, j) in the sweep.
NextI == IF j + 1 < w THEN i ELSE i + 1
NextJ == IF j + 1 < w THEN j + 1 ELSE 0
SweepDone == (i >= h) \/ (w <= 0)

(***************************************************************************)
(* Init: the object as __init__ (lines 106-121) leaves it; run() not yet   *)
(* started.                                                                *)
(***************************************************************************)
Init ==
    /\ \E s \in Sizes : h = s[1] /\ w = s[2]
    /\ neighbor_size \in {0, 1, MaxRadius}
    /\ neighbor_tol \in Tolerances
    /\ prior_dist \in PriorDists
    /\ max_frame \in {0, 1, MaxFrame}
    /\ show_every \in {0, 1, MaxShow}
    /\ grid = <<>>
    /\ init_grid = <<>>
    /\ frame = 0
    /\ i = 0
    /\ j = 0
    /\ pc = "start"
    /\ err = "none"
    /\ last = NoCall
    /\ shown = <<>>
    /\ window = NoWindow
    /\ hops = <<>>

\* Lines 125-132: draw the grid and reset the frame counter.
Populate ==
    /\ pc = "start"
    /\ IF PopulateRaises(h, w, prior_dist)
       THEN /\ pc' = "error"
            /\ err' = "ValueError"
            /\ UNCHANGED <<grid, init_grid, hops>>
       ELSE /\ grid' \in [Cells(h, w) -> Support(prior_dist)]
            /\ init_grid' = grid'
            /\ hops' = NoHops(grid')
            /\ pc' = "loop"
            /\ err' = err
    /\ frame' = 0
    /\ UNCHANGED <<config, i, j, last, shown, window>>

\* Line 133, condition false: run() returns.
LoopExit ==
    /\ pc = "loop"
    /\ ~LoopCond(frame, max_frame)
    /\ pc' = "done"
    /\ UNCHANGED <<config, grid, frame, i, j, err, init_grid, last, shown, window, hops>>

\* Lines 133-134: a frame starts; decide whether it is plotted.
FrameTest ==
    /\ pc = "loop"
    /\ LoopCond(frame, max_frame)
    /\ IF show_every = 0
       THEN /\ pc' = "error"
            /\ err' = "ZeroDivisionError"
            /\ UNCHANGED <<i, j>>
       ELSE /\ err' = err
            /\ IF PyMod(frame, show_every) = 0
               THEN pc' = "show" /\ UNCHANGED <<i, j>>
               ELSE pc' = "sweep" /\ i' = 0 /\ j' = 0
    /\ UNCHANGED <<config, grid, frame, init_grid, last, shown, window, hops>>

\* Lines 135-140, up to the call of plt.show(): the figure of this frame is
\* drawn and its window opens; run() waits in plt.show().
Render ==
    /\ pc = "show"
    /\ shown' = Append(shown, frame)
    /\ window' = Plotted(frame, grid)
    /\ pc' = "showing"
    /\ UNCHANGED <<config, grid, frame, i, j, err, init_grid, last, hops>>

\* Line 140 returns: the window was closed ('q'), the sweep begins.
Proceed ==
    /\ pc = "showing"
    /\ window' = NoWindow
    /\ pc' = "sweep"
    /\ i' = 0
    /\ j' = 0
    /\ UNCHANGED <<config, grid, frame, err, init_grid, last, shown, hops>>

\* Lines 145-154: the visit of cell (i, j).
Visit ==
    /\ pc = "sweep"
    /\ ~SweepDone
    /\ LET xy == <<i, j>>
           res == similarity(grid, xy, h, w, neighbor_size, neighbor_tol)
       IN  IF IsEmptySpace(grid, xy)
           THEN /\ i' = NextI
                /\ j' = NextJ
                /\ UNCHANGED <<grid, pc, err, last, hops>>
           ELSE /\ last' = [xy |-> xy, own |-> grid[xy], res |-> res]
                /\ CASE res = "ZeroDivisionError" ->
                            /\ pc' = "error"
                            /\ err' = "ZeroDivisionError"
                            /\ UNCHANGED <<grid, i, j, hops>>
                     [] res = "False" ->
                            /\ i' = NextI
                            /\ j' = NextJ
                            /\ UNCHANGED <<grid, pc, err, hops>>
                     [] res = "True" /\ Empties(grid) = {} ->
                            /\ pc' = "error"
                            /\ err' = "IndexError"
                            /\ UNCHANGED <<grid, i, j, hops>>
                     [] res = "True" /\ Empties(grid) # {} ->
                            /\ \E dst \in Empties(grid) :
                                    /\ grid' = Moved(grid, xy, dst)
                                    /\ hops' = Hopped(hops, xy, dst)
                            /\ i' = NextI
                            /\ j' = NextJ
                            /\ UNCHANGED <<pc, err>>
    /\ UNCHANGED <<config, frame, init_grid, shown, window>>

\* Line 155: the sweep is over, the frame counter advances.
EndSweep ==
    /\ pc = "sweep"
    /\ SweepDone
    /\ frame' = frame + 1
    /\ pc' = "loop"
    /\ hops' = NoHops(grid)
    /\ UNCHANGED <<config, grid, i, j, err, init_grid, last, shown, window>>

Next ==
    \/ Populate
    \/ LoopExit
    \/ FrameTest
    \/ Render
    \/ Proceed
    \/ Visit
    \/ EndSweep

Spec == Init /\ [][Next]_vars

(***************************************************************************)
(* The same program on one 3 x 3 grid: the run in which line 129 draws     *)
(*      A A .                                                              *)
(*      . B A                                                              *)
(*      B . B                                                              *)
(* with neighbor_size = 1 and neighbor_tol = 0.5.                          *)
(***************************************************************************)
FixtureRows == <<<<TypeA, TypeA, Empty>>, <<Empty, TypeB, TypeA>>, <<TypeB, Empty, TypeB>>>>
Fixture == [c \in Cells(3, 3) |-> FixtureRows[c[1] + 1][c[2] + 1]]

InitFixture ==
    /\ h = 3
    /\ w = 3
    /\ neighbor_size = 1
    /\ neighbor_tol = <<1, 2>>
    /\ prior_dist = <<1, 1, 1>>
    /\ max_frame = 2
    /\ show_every = 2
    /\ grid = <<>>
    /\ init_grid = <<>>
    /\ frame = 0
    /\ i = 0
    /\ j = 0
    /\ pc = "start"
    /\ err = "none"
    /\ last = NoCall
    /\ shown = <<>>
    /\ window = NoWindow
    /\ hops = <<>>

\* Lines 125-132 when the draw is the fixture.
PopulateFixture ==
    /\ pc = "start"
    /\ grid' = Fixture
    /\ init_grid' = grid'
    /\ hops' = NoHops(grid')
    /\ pc' = "loop"
    /\ frame' = 0
    /\ UNCHANGED <<config, i, j, err, last, shown, window>>

NextFixture ==
    \/ PopulateFixture
    \/ LoopExit
    \/ FrameTest
    \/ Render
    \/ Proceed
    \/ Visit
    \/ EndSweep

SpecFixture == InitFixture /\ [][NextFixture]_vars

TypeOK ==
    /\ pc \in {"start", "loop", "show", "showing", "sweep", "done", "error"}
    /\ err \in {"none", "ValueError", "ZeroDivisionError", "IndexError"}
    /\ frame \in 0..(MaxFrame + 1)

(***************************************************************************)
(* Vocabulary of the properties, stated without the program's operators.   *)
(***************************************************************************)
Abs(n) == IF n < 0 THEN -n ELSE n

\* The number of cells of g holding v.
Number(g, v) == Cardinality({c \in DOMAIN g : g[c] = v})

\* The square window of half-width r around xy, the centre included.
Square(xy, r) == ((xy[1] - r)..(xy[1] + r)) \X ((xy[2] - r)..(xy[2] + r))

\* The cells of a rows x cols grid within distance r of xy in both
\* coordinates, xy itself excluded.
NeighborSet(xy, rows, cols, r) ==
    {c \in Cells(rows, cols) : c # xy /\ Abs(c[1] - xy[1]) <= r /\ Abs(c[2] - xy[2]) <= r}

SameCount(g, xy, rows, cols, r) ==
    Cardinality({c \in NeighborSet(xy, rows, cols, r) : g[c] = g[xy]})

TotalCount(xy, rows, cols, r) == Cardinality(NeighborSet(xy, rows, cols, r))

Populated == pc \in {"loop", "show", "showing", "sweep", "done"} \/ (pc = "error" /\ err # "ValueError")

(***************************************************************************)
(* C1  Occupant conservation: in every state after initialization the      *)
(* number of TypeA cells, of TypeB cells and of Empty cells equals the     *)
(* number in the grid as initialization produced it.                       *)
(***************************************************************************)
C1_Conservation ==
    Populated => /\ DOMAIN grid = DOMAIN init_grid
                 /\ \A v \in States : Number(grid, v) = Number(init_grid, v)

\* A two-frame run has ended with residents at other cells than they started.
C1_Witness ==
    /\ pc = "done"
    /\ frame = 2
    /\ grid # init_grid
    /\ Number(grid, TypeA) > 0
    /\ Number(grid, TypeB) > 0

(***************************************************************************)
(* C2  For every occupied cell with at least one neighbour, radius >= 1:   *)
(* similarity is true iff (same-type neighbours) / (all neighbour cells,   *)
(* empty ones included) is strictly below the tolerance; at equality it is *)
(* false.                                                                  *)
(***************************************************************************)
Threshold(g, xy, res) ==
    LET same == SameCount(g, xy, h, w, neighbor_size)
        total == TotalCount(xy, h, w, neighbor_size)
    IN  /\ res \in {"True", "False"}
        /\ (res = "True") <=> (same * neighbor_tol[2] < neighbor_tol[1] * total)
        /\ (same * neighbor_tol[2] = neighbor_tol[1] * total) => (res = "False")

C3_Neighbors ==
    (pc = "loop" /\ h >= 1 /\ w >= 1 /\ neighbor_size >= 1) =>
        \A xy \in Cells(h, w) :
            LET nb == find_neighbors(xy, h, w, neighbor_size)
                yielded == {nb[k] : k \in 1..Len(nb)}
                clipped == {c \in Square(xy, neighbor_size) : c \notin Cells(h, w)}
                side == 2 * neighbor_size + 1
            IN  /\ yielded = NeighborSet(xy, h, w, neighbor_size)
                /\ xy \notin yielded
                /\ yielded \subseteq Cells(h, w)
                /\ Cardinality(yielded) = Len(nb)
                /\ Len(nb) = side * side - 1 - Cardinality(clipped)

\* similarity has enumerated the neighbours of a cell whose radius-2 window
\* is clipped by the border of a grid with more than one row and column.
C3_Witness ==
    /\ last.res \in {"True", "False"}
    /\ neighbor_size = 2
    /\ h >= 2
    /\ w >= 2
    /\ Len(find_neighbors(last.xy, h, w, neighbor_size)) = 3

(***************************************************************************)
(* C4  Termination: a run with max_frame = F >= 1 that meets no error      *)
(* counts its frames 0, 1, ..., F, one per completed sweep, and then       *)
(* returns; once it has returned neither the grid nor the frame counter    *)
(* changes.                                                                *)
(***************************************************************************)
C4_Termination ==
    /\ [](pc = "done" /\ max_frame >= 1 => frame = max_frame /\ err = "none")
    /\ [](pc \in {"show", "showing", "sweep"} => frame < max_frame)
    /\ [][frame' # frame => (frame' = frame + 1 /\ pc = "sweep" /\ SweepDone /\ pc' = "loop")]_vars
    /\ [][pc = "sweep" /\ pc' = "loop" => frame' = frame + 1]_vars
    /\ [][pc = "done" => (pc' = "done" /\ grid' = grid /\ frame' = frame)]_vars

\* A run of two frames over a grid of several cells has returned.
C4_Witness ==
    /\ pc = "done"
    /\ max_frame = 2
    /\ frame = 2
    /\ h * w >= 2
    /\ err = "none"
    /\ last.res # "none"

(***************************************************************************)
(* C6  With prior_dist = [1.0, 0.0, 0.0] the initial grid has no occupant  *)
(* and the run completes every frame without relocation and without error. *)
(***************************************************************************)
C6_AllEmptyPrior ==
    (prior_dist = <<3, 0, 0>> /\ h >= 1 /\ w >= 1 /\ pc # "start") =>
        /\ DOMAIN grid = Cells(h, w)
        /\ \A c \in DOMAIN grid : init_grid[c] = Empty /\ grid[c] = Empty
        /\ last.res = "none"
        /\ (pc = "error" => err = "ZeroDivisionError" /\ show_every = 0 /\ last.res = "none")

(***************************************************************************)
(* C7  prior_dist is read in the order [Empty, TypeA, TypeB]: a cell state *)
(* whose probability under that order is 0 is absent from the initial grid.*)
(***************************************************************************)
C7_PriorOrder ==
    Populated =>
        \A k \in 1..3 :
            prior_dist[k] = 0 =>
                \A c \in DOMAIN init_grid : init_grid[c] # <<Empty, TypeA, TypeB>>[k]

(***************************************************************************)
(* C8  similarity called for an occupied cell without any neighbour ends   *)
(* the run with a configuration error: not with a division by zero and not *)
(* with a boolean.                                                         *)
(***************************************************************************)
C8_NoNeighbors ==
    (last.res # "none" /\ neighbor_size >= 1 /\ TotalCount(last.xy, h, w, neighbor_size) = 0) =>
        /\ pc = "error"
        /\ err = "ConfigurationError"
        /\ last.res \notin {"True", "False"}

(***************************************************************************)
(* C9  A resident that must relocate while the grid holds no Empty cell    *)
(* ends the run with a configuration error; no selection is attempted from *)
(* the empty candidate set and no cell is written.                         *)
(***************************************************************************)
C9_NoEmptyCell ==
    (last.res = "True" /\ Empties(grid) = {}) =>
        /\ pc = "error"
        /\ err = "ConfigurationError"
        /\ grid = init_grid

(***************************************************************************)
(* C10  A non-positive height, width, neighbor_size, show_every or         *)
(* max_frame is reported as a configuration error; such a run never        *)
(* returns as a normal run.  The ValueError numpy raises while the grid is *)
(* drawn is counted as such a report.                                      *)
(***************************************************************************)
C10_NonPositiveConfig ==
    (h <= 0 \/ w <= 0 \/ neighbor_size <= 0 \/ show_every <= 0 \/ max_frame <= 0) =>
        /\ pc # "done"
        /\ (pc = "error" => err \in {"ConfigurationError", "ValueError"})

(***************************************************************************)
(* C11  A frame is all or nothing: when a sweep ends in an error, the grid *)
(* and the frame counter are those the frame began with, no relocation of  *)
(* the failing sweep remains applied; a run returns after all its frames   *)
(* or stops at the first error.  (Every error of a sweep occurs in frame 0 *)
(* before any relocation, so the grid the frame began with is init_grid.)  *)
(***************************************************************************)
SweepError == pc = "error" /\ err \in {"ZeroDivisionError", "IndexError"} /\ show_every # 0

C11_AllOrNothing ==
    /\ [](SweepError => /\ frame = 0
                        /\ grid = init_grid
                        /\ \A c \in DOMAIN hops : hops[c] = 0)
    /\ [](pc = "done" => (frame = max_frame \/ max_frame <= 0) /\ err = "none")
    /\ [][pc # "error"]_vars

\* A sweep has stopped with an error after it had visited other cells.
C11_Witness ==
    /\ SweepError
    /\ i * w + j >= 2
    /\ Number(grid, TypeA) > 0
    /\ Number(grid, TypeB) > 0

(***************************************************************************)
(* C12  Render cadence: with show_every = k >= 1 the plot is made exactly  *)
(* for the frames f < max_frame with f mod k = 0, in increasing order,     *)
(* each before any cell of that frame's sweep is visited and showing the   *)
(* grid as it then stands; never for the final index; plotting changes     *)
(* neither the grid nor the frame counter.                                 *)
(***************************************************************************)
\* The multiples of k below n, in increasing order.
MultiplesBelow(k, n) == [m \in 1..((n + k - 1) \div k) |-> (m - 1) * k]

\* The frame under way has passed its render test.
PastRenderTest == pc \in {"showing", "sweep"} \/ (pc = "error" /\ Populated)

C12_RenderCadence ==
    /\ [](show_every >= 1 /\ Populated =>
            /\ shown = MultiplesBelow(show_every, IF PastRenderTest THEN frame + 1 ELSE frame)
            /\ \A k \in 1..Len(shown) : shown[k] < max_frame)
    /\ [](pc = "showing" => window = <<frame, grid>> /\ shown[Len(shown)] = frame)
    /\ [](pc # "showing" => window = NoWindow)
    /\ [][(pc = "show" \/ pc = "showing") =>
            (/\ grid' = grid
             /\ frame' = frame
             /\ last' = last
             /\ hops' = hops
             /\ pc' = (IF pc = "show" THEN "showing" ELSE "sweep"))]_vars
    /\ [][pc # "sweep" /\ pc' = "sweep" =>
            (/\ i' = 0
             /\ j' = 0
             /\ pc = (IF PyMod(frame, show_every) = 0 THEN "showing" ELSE "loop"))]_vars

\* The second frame of a run is on display, showing a grid that relocations
\* of the first frame have changed.
C12_Witness ==
    /\ pc = "showing"
    /\ frame = 1
    /\ show_every = 1
    /\ grid # init_grid
    /\ shown = <<0, 1>>

(***************************************************************************)
(* C13  In every state of a run every cell of the rows x cols grid holds   *)
(* Empty (0), TypeA (-1) or TypeB (1), and the dimensions never change.    *)
(***************************************************************************)
C13_CellStates ==
    /\ [](Populated => /\ DOMAIN grid = Cells(h, w)
                       /\ \A c \in DOMAIN grid : grid[c] \in {0, -1, 1})
    /\ [][pc # "start" => (DOMAIN grid' = DOMAIN grid /\ h' = h /\ w' = w)]_vars

\* In the middle of a sweep, after a relocation, the grid holds all three
\* values.
C13_Witness ==
    /\ pc = "sweep"
    /\ i * w + j >= 1
    /\ grid # init_grid
    /\ \A v \in States : Number(grid, v) > 0

(***************************************************************************)
(* C14  Fixture: on the 3 x 3 grid [A A .] [. B A] [B . B] with radius 1   *)
(* and tolerance 0.5 the TypeB cell (1,1) has 8 neighbours; the fraction   *)
(* is taken over all 8 and similarity is true.                             *)
(*                                                                         *)
(* As claimed: 6 of the neighbours are occupied and exactly 1 is of the    *)
(* cell's own type, the B at (2,2).                                        *)
(***************************************************************************)
AtFixture == grid = Fixture /\ neighbor_size = 1 /\ neighbor_tol = <<1, 2>>

Unhappy(g, xy) ==
    SameCount(g, xy, h, w, neighbor_size) * neighbor_tol[2]
        < neighbor_tol[1] * TotalCount(xy, h, w, neighbor_size)

\* g2 is g after the resident of src moved to a cell that was Empty in g.
Relocation(g, g2, src) ==
    \E dst \in DOMAIN g :
        /\ g[dst] = Empty
        /\ g2 = [c \in DOMAIN g |-> IF c = dst THEN g[src] ELSE IF c = src THEN Empty ELSE g[c]]

C15_InPlaceSweep ==
    /\ [][(pc = "sweep" /\ pc' = "sweep") =>
            (/\ ~SweepDone
             /\ j' \in 0..(w - 1)
             /\ i' * w + j' = i * w + j + 1)]_vars
    /\ [][(pc # "sweep" /\ pc' = "sweep") => (i' = 0 /\ j' = 0)]_vars
    /\ [][(pc = "sweep" /\ pc' = "loop") => (h <= 0 \/ w <= 0 \/ (i = h /\ j = 0))]_vars
    /\ [][(pc = "sweep" /\ grid' # grid) =>
            (/\ ~SweepDone
             /\ grid[<<i, j>>] # Empty
             /\ Unhappy(grid, <<i, j>>)
             /\ Relocation(grid, grid', <<i, j>>))]_vars
    /\ [][(/\ pc = "sweep" /\ ~SweepDone /\ neighbor_size >= 1
           /\ grid[<<i, j>>] # Empty
           /\ TotalCount(<<i, j>>, h, w, neighbor_size) > 0) =>
              (/\ (last'.res = "True") <=> Unhappy(grid, <<i, j>>)
               /\ (Unhappy(grid, <<i, j>>) /\ Empties(grid) # {}) => grid' # grid)]_vars

\* In the first sweep a resident has moved into a cell that was occupied when
\* the sweep began, and a resident that has not moved has just been told to
\* stay although on the grid as the sweep began it would have had to move.
C15_Witness ==
    /\ pc = "sweep"
    /\ frame = 0
    /\ \E c \in DOMAIN hops : hops[c] > 0 /\ init_grid[c] # Empty
    /\ last.res = "False"
    /\ hops[last.xy] = 0
    /\ init_grid[last.xy] = last.own
    /\ Unhappy(init_grid, last.xy)

(***************************************************************************)
(* C16  Effect of one visit on the grid: visiting an Empty cell, or a      *)
(* resident that stays, leaves the grid as it was; a relocation changes    *)
(* exactly two cells, the origin (now Empty) and one cell that was Empty   *)
(* (now holding the origin's type), and nothing else; the set of cells     *)
(* (the dimensions) never changes.                                         *)
(***************************************************************************)
Changed(g, g2) == {c \in DOMAIN g : g2[c] # g[c]}

C16_VisitEffect ==
    /\ [][(pc = "sweep" /\ ~SweepDone) =>
            (/\ DOMAIN grid' = DOMAIN grid
             /\ grid[<<i, j>>] = Empty => grid' = grid
             /\ (grid[<<i, j>>] # Empty /\ last'.res # "True") => grid' = grid
             /\ grid' # grid =>
                  (/\ last'.res = "True"
                   /\ last'.xy = <<i, j>>
                   /\ \E dst \in DOMAIN grid :
                        /\ dst # <<i, j>>
                        /\ Changed(grid, grid') = {<<i, j>>, dst}
                        /\ grid[dst] = Empty
                        /\ grid'[dst] = grid[<<i, j>>]
                        /\ grid'[<<i, j>>] = Empty))]_vars
    /\ [][pc \notin {"start", "sweep"} => grid' = grid]_vars

\* A relocation has just happened: the cell visited last is now Empty and its
\* resident's type stands in a cell it arrived in during this sweep.
C16_Witness ==
    /\ pc = "sweep"
    /\ last.res = "True"
    /\ last.xy \in DOMAIN grid
    /\ grid[last.xy] = Empty
    /\ \E c \in DOMAIN grid : hops[c] = 1 /\ grid[c] = last.own /\ init_grid[c] = Empty
    /\ \E c \in DOMAIN grid : c # last.xy /\ grid[c] # Empty /\ hops[c] = 0

(***************************************************************************)
(* C17  The sweep never evaluates similarity on an Empty cell: every       *)
(* evaluation is made for the cell under visit and that cell is occupied,  *)
(* and a visit to an Empty cell evaluates nothing.  An evaluation that     *)
(* answers "stay" leaves the grid untouched; the only writes to the grid   *)
(* are those of the relocation that follows an answer "relocate".          *)
(* (similarity itself is an operator of the grid: it has no primed         *)
(* variable to write.)                                                     *)
(***************************************************************************)
C17_NoEmptyEvaluation ==
    /\ [](last.res # "none" => last.own # Empty)
    /\ [][last' # last =>
            (/\ pc = "sweep"
             /\ ~SweepDone
             /\ grid[<<i, j>>] # Empty
             /\ last'.xy = <<i, j>>
             /\ last'.own = grid[<<i, j>>]
             /\ last'.res \in {"True", "False", "ZeroDivisionError"})]_vars
    /\ [][(pc = "sweep" /\ ~SweepDone /\ grid[<<i, j>>] = Empty) =>
            (last' = last /\ grid' = grid /\ pc' = "sweep")]_vars
    /\ [][(pc = "sweep" /\ last'.res # "True") => grid' = grid]_vars

\* In the first sweep an evaluation has been made and at least one cell after
\* the evaluated one was visited without an evaluation: it was Empty.
C17_Witness ==
    /\ pc = "sweep"
    /\ frame = 0
    /\ last.res # "none"
    /\ i * w + j > last.xy[1] * w + last.xy[2] + 1
    /\ \E c \in DOMAIN grid :
          /\ c[1] * w + c[2] > last.xy[1] * w + last.xy[2]
          /\ c[1] * w + c[2] < i * w + j
          /\ grid[c] = Empty

(***************************************************************************)
(* C18  Stable grids are absorbing: once no resident must relocate (the    *)
(* same-type fraction of every occupied cell is at least the tolerance),   *)
(* no step changes the grid any more, so a grid that is stable at the      *)
(* start of a frame is the grid of every later frame; a grid that was      *)
(* stable when drawn, and any grid under a tolerance <= 0, stays the       *)
(* initial grid for the whole run.                                         *)
(***************************************************************************)
StableGrid(g) == \A c \in DOMAIN g : g[c] # Empty => ~Unhappy(g, c)

C18_StableAbsorbing ==
    /\ [][(Populated /\ StableGrid(grid)) => (grid' = grid /\ StableGrid(grid'))]_vars
    /\ [](Populated /\ StableGrid(init_grid) => grid = init_grid)
    /\ [](Populated /\ neighbor_tol[1] <= 0 => grid = init_grid)

\* A run of two frames under a positive tolerance has completed on a grid
\* with residents and an Empty cell to move to, every resident having been
\* told to stay: the grid is still the one drawn.
C18_Witness ==
    /\ pc = "done"
    /\ frame = 2
    /\ neighbor_tol[1] > 0
    /\ last.res = "False"
    /\ StableGrid(init_grid)
    /\ grid = init_grid
    /\ \E c \in DOMAIN grid : grid[c] = Empty
    /\ Cardinality({c \in DOMAIN grid : grid[c] # Empty}) >= 2

(***************************************************************************)
(* C19  Re-evaluation within a sweep: every cell that is occupied when it  *)
(* is visited is evaluated, a resident that arrived earlier in the same    *)
(* sweep included; a sweep makes at most one relocation per visited cell,  *)
(* hence at most rows*cols in a frame; and one resident may be relocated   *)
(* more than once in a frame (the witness).                                *)
(***************************************************************************)
RECURSIVE SumOver(_, _)
SumOver(f, S) ==
    IF S = {} THEN 0
    ELSE LET c == CHOOSE x \in S : TRUE IN f[c] + SumOver(f, S \ {c})

\* Relocations made so far in the sweep under way.
Relocations == SumOver(hops, DOMAIN hops)

C19_ReEvaluation ==
    /\ [](pc = "sweep" =>
            (/\ Relocations <= i * w + j
             /\ i * w + j <= h * w
             /\ Relocations <= h * w))
    /\ [][(pc = "sweep" /\ ~SweepDone /\ grid[<<i, j>>] # Empty) =>
            (/\ last'.xy = <<i, j>>
             /\ last'.own = grid[<<i, j>>]
             /\ last'.res \in {"True", "False", "ZeroDivisionError"})]_vars
    /\ [][(pc = "sweep" /\ grid' # grid) => Relocations' = Relocations + 1]_vars
    /\ [][(pc = "sweep" /\ pc' = "sweep" /\ grid' = grid) => Relocations' = Relocations]_vars

\* A resident stands in a cell it reached by its second relocation of the
\* sweep under way.
C19_Witness ==
    /\ pc = "sweep"
    /\ \E c \in DOMAIN hops : hops[c] >= 2 /\ grid[c] # Empty
====
